---- MODULE Spec2Model ----
(***************************************************************************)
(* State-machine model of src/src/server.js: the WhatsApp webhook relay.   *)
(*                                                                         *)
(* JavaScript objects are TLA+ records; a property that is absent from an  *)
(* object is a field that is absent from the record's DOMAIN.  Arrays are  *)
(* sequences (a[0] in the source is a[1] here, and is undefined when the   *)
(* sequence is empty).  A string-valued slot that holds `undefined` holds  *)
(* the value UNDEF.                                                        *)
(***************************************************************************)
EXTENDS Integers, Sequences, FiniteSets, TLC

VARIABLES
    MESSAGES,    \* the in-memory store (server.js line 33)
    emitted,     \* the io.emit calls made by the most recent handler step
    last,        \* which handler step ran most recently
    res,         \* the HTTP response written by that step (NoResponse if none)
    axiosCalls,  \* the axios.post calls issued by that step
    pending,     \* send-message handlers suspended on `await axios.post`
    now,         \* Date.now(), in milliseconds after the instant ClockBase
    env          \* process.env

vars == <<MESSAGES, emitted, last, res, axiosCalls, pending, now, env>>

(***************************************************************************)
(* Bounds of the model.                                                    *)
(***************************************************************************)
MaxMessages == 2    \* requests that append are not taken once the store holds this many
MaxPending == 1     \* send requests suspended on the external call at one time
MaxClock == 1       \* the clock takes the values 0 .. MaxClock

(***************************************************************************)
(* JavaScript values.                                                      *)
(***************************************************************************)
UNDEF == "<undefined>"

Has(o, f) == f \in DOMAIN o

\* o.f for a string-valued property: undefined when the property is absent
Get(o, f) == IF Has(o, f) THEN o[f] ELSE UNDEF

\* truthiness of a string-or-undefined value
Truthy(v) == v /= UNDEF /\ v /= ""

\* a || b on string-or-undefined values
Or(a, b) == IF Truthy(a) THEN a ELSE b

EmptyObject == [f \in {} |-> UNDEF]

Pad3(n) == IF n < 10 THEN "00" \o ToString(n)
           ELSE IF n < 100 THEN "0" \o ToString(n) ELSE ToString(n)

\* The process clock.  Date.now() is ClockBaseSeconds * 1000 + now.
ClockBaseSeconds == "1700000000"
ClockBaseISO == "2023-11-14T22:13:20"

\* String(Date.now())
DateNowString == ClockBaseSeconds \o Pad3(now)

\* new Date().toISOString()
NowISOString == ClockBaseISO \o "." \o Pad3(now) \o "Z"

\* parseInt(s): the integer a decimal string denotes, NaN for anything else
NaN == "NaN"
ParseInt(s) == IF s = "1700000000" THEN "1700000000"
               ELSE IF s = "1700000060" THEN "1700000060"
               ELSE NaN

\* new Date(seconds * 1000).toISOString(); an invalid date throws RangeError
InvalidDate(seconds) == seconds = NaN
ToISOString(seconds) == IF seconds = "1700000000" THEN "2023-11-14T22:13:20.000Z"
                        ELSE "2023-11-14T22:14:20.000Z"

\* what express sends: res.sendStatus(n) sends the status text as the body
NoResponse == [status |-> 0, body |-> EmptyObject]
SendStatus(n) == [status |-> n,
                  body |-> [text |-> CASE n = 200 -> "OK"
                                       [] n = 403 -> "Forbidden"
                                       [] n = 404 -> "Not Found"
                                       [] OTHER -> "Internal Server Error"]]
Json(v) == [status |-> 200, body |-> v]

(***************************************************************************)
(* The store.                                                              *)
(***************************************************************************)
\* a store that adds at the front (unshift) instead of at the end
PushFront(store, record) == <<record>> \o store

\* MESSAGES.push(newMessage), lines 107 and 145
Push(store, record) == Append(store, record)

\* a clear that truncates to one element (MESSAGES.length = 1)
ClearToOne(store) == IF store = <<>> THEN <<>> ELSE <<store[1]>>

\* MESSAGES.length = 0, line 52
Clear(store) == <<>>

\* io.emit(event, payload) / io.emit(event)
Emit(event, payload) == [event |-> event, payload |-> payload]
EmitBare(event) == [event |-> event]

(***************************************************************************)
(* GET /api/messages, lines 46-48.                                         *)
(***************************************************************************)
GetMessages ==
    /\ res' = Json([messages |-> MESSAGES])
    /\ last' = "GET /api/messages"
    /\ emitted' = <<>>
    /\ axiosCalls' = <<>>
    /\ UNCHANGED <<MESSAGES, pending, now, env>>

(***************************************************************************)
(* DELETE /api/messages, lines 51-56.                                      *)
(***************************************************************************)
DeleteMessages ==
    /\ MESSAGES' = Clear(MESSAGES)
    /\ emitted' = <<EmitBare("messages_cleared")>>
    /\ res' = SendStatus(200)
    /\ last' = "DELETE /api/messages"
    /\ axiosCalls' = <<>>
    /\ UNCHANGED <<pending, now, env>>

(***************************************************************************)
(* GET /webhook, lines 59-70.                                              *)
(***************************************************************************)
DefaultVerifyToken == "bellizy_token"

\* process.env.WEBHOOK_VERIFY_TOKEN || 'bellizy_token'
ConfiguredVerifyToken == Or(env.WEBHOOK_VERIFY_TOKEN, DefaultVerifyToken)

\* a gate that forgets to check the mode
VerifyTokenOnly(mode, token) == token = ConfiguredVerifyToken

\* the condition of line 64
Verify(mode, token) == mode = "subscribe" /\ token = ConfiguredVerifyToken

\* res.status(200).send(challenge): an undefined challenge sends an empty body
VerifyResponse(mode, token, challenge) ==
    IF Verify(mode, token)
    THEN [status |-> 200, body |-> [text |-> IF challenge = UNDEF THEN "" ELSE challenge]]
    ELSE SendStatus(403)

GetWebhook(query) ==
    /\ res' = VerifyResponse(Get(query, "hub.mode"), Get(query, "hub.verify_token"),
                             Get(query, "hub.challenge"))
    /\ last' = "GET /webhook"
    /\ emitted' = <<>>
    /\ axiosCalls' = <<>>
    /\ UNCHANGED <<MESSAGES, pending, now, env>>

(***************************************************************************)
(* POST /webhook, lines 73-123.                                            *)
(***************************************************************************)
\* The condition of lines 81-85, evaluated left to right as JavaScript does:
\* "true", "false", or "throw" when a property of undefined is read.
NestingCheck(body) ==
    IF ~Has(body, "entry") THEN "false"                      \* body.entry
    ELSE IF Len(body.entry) = 0 THEN "throw"                 \* body.entry[0].changes
    ELSE IF ~Has(body.entry[1], "changes") THEN "false"
    ELSE IF Len(body.entry[1].changes) = 0 THEN "false"      \* ...changes[0]
    ELSE IF ~Has(body.entry[1].changes[1], "value") THEN "throw"   \* ...value.messages
    ELSE IF ~Has(body.entry[1].changes[1].value, "messages") THEN "false"
    ELSE IF Len(body.entry[1].changes[1].value.messages) = 0 THEN "false"
    ELSE "true"

\* lines 91-94
SenderName(changes, msg) ==
    IF /\ Has(changes, "contacts")
       /\ Len(changes.contacts) > 0
       /\ Has(changes.contacts[1], "profile")
    THEN Get(changes.contacts[1].profile, "name")
    ELSE Get(msg, "from")

\* a filter that lets every message type through
IsAnyType(msg) == TRUE

\* line 97
IsText(msg) == Get(msg, "type") = "text"

\* Evaluating the object literal of lines 98-105 throws when msg.text is
\* undefined (line 102) or when the date is invalid (line 103).
NewMessageThrows(msg) ==
    \/ ~Has(msg, "text")
    \/ InvalidDate(ParseInt(Get(msg, "timestamp")))

\* lines 98-105
ReceivedMessage(changes, msg) ==
    [id |-> Get(msg, "id"),
     from |-> Get(msg, "from"),
     senderName |-> SenderName(changes, msg),
     text |-> Get(msg.text, "body"),
     timestamp |-> ToISOString(ParseInt(Get(msg, "timestamp"))),
     type |-> "received"]

\* The whole handler: the status it answers and the records it pushes.
HandleWebhook(body) ==
    IF ~Truthy(Get(body, "object")) THEN [status |-> 404, push |-> <<>>]
    ELSE LET check == NestingCheck(body) IN
         IF check = "throw" THEN [status |-> 500, push |-> <<>>]
         ELSE IF check = "false" THEN [status |-> 200, push |-> <<>>]
         ELSE LET changes == body.entry[1].changes[1].value
                  msg == changes.messages[1]
              IN IF ~IsText(msg) THEN [status |-> 200, push |-> <<>>]
                 ELSE IF NewMessageThrows(msg) THEN [status |-> 500, push |-> <<>>]
                 ELSE [status |-> 200, push |-> <<ReceivedMessage(changes, msg)>>]

PostWebhook(body) ==
    LET out == HandleWebhook(body) IN
    /\ Len(MESSAGES) + Len(out.push) <= MaxMessages
    /\ MESSAGES' = IF out.push = <<>> THEN MESSAGES ELSE Push(MESSAGES, out.push[1])
    /\ emitted' = IF out.push = <<>> THEN <<>> ELSE <<Emit("new_message", out.push[1])>>
    /\ res' = SendStatus(out.status)
    /\ last' = "POST /webhook"
    /\ axiosCalls' = <<>>
    /\ UNCHANGED <<pending, now, env>>

(***************************************************************************)
(* POST /api/send-message, lines 126-193.                                  *)
(***************************************************************************)
\* line 131: req.body.token || process.env.META_ACCESS_TOKEN
SendToken(req) == Or(Get(req, "token"), env.META_ACCESS_TOKEN)

\* line 132
PhoneId == env.META_PHONE_ID

\* line 135
EchoCondition(to, text, templateName) ==
    Truthy(to) /\ (Truthy(text) \/ Truthy(templateName))

\* lines 136-144
SentMessage(to, text, templateName) ==
    [id |-> "sent_" \o DateNowString,
     from |-> "me",
     senderName |-> "Me",
     to |-> to,
     text |-> Or(text, "Template: " \o templateName),
     timestamp |-> NowISOString,
     type |-> "sent"]

\* a credentials check that mocks only when both are absent
NoCredentialsAtAll(token, phoneId) == ~Truthy(token) /\ ~Truthy(phoneId)

\* line 151
NoCredentials(token, phoneId) == ~Truthy(token) \/ ~Truthy(phoneId)

\* lines 159-177
BuildPayload(to, text, templateName) ==
    IF Truthy(text)
    THEN [messaging_product |-> "whatsapp", to |-> to, type |-> "text",
          text |-> [body |-> text]]
    ELSE [messaging_product |-> "whatsapp", to |-> to, type |-> "template",
          template |-> [name |-> Or(templateName, "hello_world"),
                        language |-> [code |-> "en_US"]]]

\* lines 157 and 179-184
AxiosPost(phoneId, payload, token) ==
    [url |-> "https://graph.facebook.com/v22.0/" \o phoneId \o "/messages",
     payload |-> payload,
     authorization |-> "Bearer " \o token]

\* The handler from its start to its first response or to `await` (line 179).
PostSendMessage(req) ==
    LET to == Get(req, "to")
        text == Get(req, "text")
        templateName == Get(req, "templateName")
        token == SendToken(req)
        echo == EchoCondition(to, text, templateName)
        newMessage == SentMessage(to, text, templateName)
    IN
    /\ echo => Len(MESSAGES) < MaxMessages
    /\ MESSAGES' = IF echo THEN Push(MESSAGES, newMessage) ELSE MESSAGES
    /\ emitted' = IF echo THEN <<Emit("new_message", newMessage)>> ELSE <<>>
    /\ IF NoCredentials(token, PhoneId)
       THEN /\ res' = Json([success |-> TRUE, mocked |-> TRUE])
            /\ axiosCalls' = <<>>
            /\ last' = "POST /api/send-message"
            /\ UNCHANGED pending
       ELSE /\ pending < MaxPending
            /\ pending' = pending + 1
            /\ axiosCalls' = <<AxiosPost(PhoneId, BuildPayload(to, text, templateName), token)>>
            /\ res' = NoResponse
            /\ last' = "POST /api/send-message: await"
    /\ UNCHANGED <<now, env>>

\* lines 179-186: the awaited call resolves
SendResolved(data) ==
    /\ pending > 0
    /\ pending' = pending - 1
    /\ res' = Json([success |-> TRUE, data |-> data])
    /\ last' = "POST /api/send-message: resolved"
    /\ emitted' = <<>>
    /\ axiosCalls' = <<>>
    /\ UNCHANGED <<MESSAGES, now, env>>

\* line 191: error.response?.data || error.message
ErrorDetail(error) ==
    IF Has(error, "response") THEN Or(Get(error.response, "data"), error.message)
    ELSE error.message

\* a catch block that retracts the local echo when the send fails
SendRejectedRetracts(error) ==
    /\ pending > 0
    /\ pending' = pending - 1
    /\ MESSAGES' = IF MESSAGES = <<>> THEN <<>> ELSE SubSeq(MESSAGES, 1, Len(MESSAGES) - 1)
    /\ res' = Json([success |-> FALSE, error |-> ErrorDetail(error)])
    /\ last' = "POST /api/send-message: rejected"
    /\ emitted' = <<>>
    /\ axiosCalls' = <<>>
    /\ UNCHANGED <<now, env>>

\* lines 188-192: the awaited call rejects
SendRejected(error) ==
    /\ pending > 0
    /\ pending' = pending - 1
    /\ res' = Json([success |-> FALSE, error |-> ErrorDetail(error)])
    /\ last' = "POST /api/send-message: rejected"
    /\ emitted' = <<>>
    /\ axiosCalls' = <<>>
    /\ UNCHANGED <<MESSAGES, now, env>>

\* time passes between two handler steps
Tick ==
    /\ now < MaxClock
    /\ now' = now + 1
    /\ UNCHANGED <<MESSAGES, emitted, last, res, axiosCalls, pending, env>>

(***************************************************************************)
(* Inputs.                                                                 *)
(***************************************************************************)
Env(verifyToken, accessToken, phoneId) ==
    [WEBHOOK_VERIFY_TOKEN |-> verifyToken,
     META_ACCESS_TOKEN |-> accessToken,
     META_PHONE_ID |-> phoneId]

\* The deployments: each of the four combinations of send credentials, and the
\* verify token both unset and set (the two are read by different handlers).
Envs ==
    { Env(UNDEF, UNDEF, UNDEF),
      Env("s3cret", "envtoken", UNDEF),
      Env(UNDEF, UNDEF, "1065"),
      Env("s3cret", "envtoken", "1065") }

Query(mode, token) ==
    ("hub.mode" :> mode) @@ ("hub.verify_token" :> token)
    @@ ("hub.challenge" :> "1158201444")

Queries ==
    {Query(m, t) : m \in {"subscribe", "unsubscribe"},
                   t \in {"bellizy_token", "s3cret", "guess"}}
    \cup {EmptyObject,
          "hub.mode" :> "subscribe",
          ("hub.mode" :> "subscribe") @@ ("hub.verify_token" :> "bellizy_token"),
          ("hub.mode" :> "subscribe") @@ ("hub.verify_token" :> "s3cret")}

UpstreamIds == {"wamid.1", "wamid.2"}

\* messages[0] of a text message
TextMessage(id, body) ==
    [id |-> id, from |-> "1555", type |-> "text", timestamp |-> "1700000000",
     text |-> [body |-> body]]

\* messages[0] values of other kinds, and text messages that lack a part
OtherMessages ==
    { [id |-> "wamid.1", from |-> "1555", type |-> "image", timestamp |-> "1700000000"],
      [id |-> "wamid.1", from |-> "1555", type |-> "image", timestamp |-> "1700000000",
       text |-> [body |-> "hi"]],
      [id |-> "wamid.1", from |-> "1555", type |-> "text", timestamp |-> "1700000000"],
      [id |-> "wamid.1", from |-> "1555", type |-> "text", text |-> [body |-> "hi"]],
      [id |-> "wamid.1", from |-> "1555", type |-> "text", timestamp |-> "soon",
       text |-> [body |-> "hi"]],
      [id |-> "wamid.1", from |-> "1555", timestamp |-> "1700000000"] }

\* value.contacts: [], [{}], [{profile: {}}], [{profile: {name}}]
ContactsShapes ==
    { [contacts |-> <<>>],
      [contacts |-> <<[wa_id |-> "1555"]>>],
      [contacts |-> <<[wa_id |-> "1555", profile |-> EmptyObject]>>],
      [contacts |-> <<[wa_id |-> "1555", profile |-> [name |-> "Ana"]]>>] }

\* body for entry[0].changes[0].value = value
Delivery(value) ==
    [object |-> "whatsapp_business_account",
     entry |-> <<[id |-> "0", changes |-> <<[field |-> "messages", value |-> value]>>]>>]

\* deliveries of one well-formed text message, without contacts
TextDeliveries ==
    {Delivery([messages |-> <<TextMessage(i, "hi")>>]) : i \in UpstreamIds}

\* deliveries whose nesting is complete
CompleteDeliveries ==
    TextDeliveries
    \cup {Delivery([messages |-> <<TextMessage("wamid.1", "")>>])}
    \cup {Delivery([messages |-> <<m>>]) : m \in OtherMessages}
    \cup {Delivery([messages |-> <<TextMessage("wamid.1", "hi")>>] @@ c) :
             c \in ContactsShapes}
    \cup {Delivery([messages |-> <<m>>] @@ c) :
             m \in {[id |-> "wamid.1", from |-> "1555", type |-> "image",
                     timestamp |-> "1700000000"]},
             c \in ContactsShapes}

\* deliveries in which a level of the nesting is missing or empty
BrokenDeliveries ==
    { [object |-> "whatsapp_business_account"],
      [object |-> "whatsapp_business_account", entry |-> <<>>],
      [object |-> "whatsapp_business_account", entry |-> <<[id |-> "0"]>>],
      [object |-> "whatsapp_business_account",
       entry |-> <<[id |-> "0", changes |-> <<>>]>>],
      [object |-> "whatsapp_business_account",
       entry |-> <<[id |-> "0", changes |-> <<[field |-> "messages"]>>]>>],
      Delivery(EmptyObject),
      Delivery([messages |-> <<>>]) }

\* bodies without a truthy `object`
NoObjectBodies ==
    { EmptyObject,
      [object |-> ""],
      [entry |-> <<[id |-> "0", changes |-> <<[field |-> "messages",
          value |-> [messages |-> <<TextMessage("wamid.1", "hi")>>]]>>]>>] }

WebhookBodies == CompleteDeliveries \cup BrokenDeliveries \cup NoObjectBodies

SendRequests ==
    {a @@ b @@ c :
        a \in {EmptyObject, [to |-> "1555"]},
        b \in {EmptyObject, [templateName |-> "promo"], [text |-> "hello"],
               [text |-> "", templateName |-> "promo"],
               [text |-> "hello", templateName |-> "promo"]},
        c \in {EmptyObject, [token |-> "usertoken"]}}

AxiosData == {"{messages:[{id:wamid.9}]}"}

AxiosErrors ==
    { [message |-> "Request failed with status code 400",
       response |-> [data |-> "{error:{code:131030}}"]],
      [message |-> "Request failed with status code 502", response |-> [data |-> ""]],
      [message |-> "connect ECONNREFUSED"] }

(***************************************************************************)
(* The specification.                                                      *)
(***************************************************************************)
Init ==
    /\ MESSAGES = <<>>
    /\ emitted = <<>>
    /\ last = "listen"
    /\ res = NoResponse
    /\ axiosCalls = <<>>
    /\ pending = 0
    /\ now = 0
    /\ env \in Envs

\* the system under the webhook deliveries `bodies`
NextOn(bodies) ==
    \/ GetMessages
    \/ DeleteMessages
    \/ \E query \in Queries : GetWebhook(query)
    \/ \E body \in bodies : PostWebhook(body)
    \/ \E req \in SendRequests : PostSendMessage(req)
    \/ \E data \in AxiosData : SendResolved(data)
    \/ \E error \in AxiosErrors : SendRejected(error)
    \/ Tick

\* the deliveries of the whole-system specification: text messages, a message
\* of another type, a delivery without nesting and a body without `object`
CoreDeliveries ==
    TextDeliveries
    \cup {Delivery([messages |-> <<[id |-> "wamid.1", from |-> "1555", type |-> "image",
                                    timestamp |-> "1700000000"]>>]),
          [object |-> "whatsapp_business_account"],
          EmptyObject}

Next == NextOn(CoreDeliveries)

Spec == Init /\ [][Next]_vars

\* the webhook endpoints alone, under every delivery
NextIngest ==
    \/ GetMessages
    \/ DeleteMessages
    \/ \E query \in Queries : GetWebhook(query)
    \/ \E body \in WebhookBodies : PostWebhook(body)

SpecIngest == Init /\ [][NextIngest]_vars

\* the API endpoints alone, without webhook traffic
NextApi ==
    \/ GetMessages
    \/ DeleteMessages
    \/ \E req \in SendRequests : PostSendMessage(req)
    \/ \E data \in AxiosData : SendResolved(data)
    \/ \E error \in AxiosErrors : SendRejected(error)
    \/ Tick

SpecApi == Init /\ [][NextApi]_vars

(***************************************************************************)
(* Properties.                                                             *)
(***************************************************************************)
LastOf(store) == store[Len(store)]

\* store2 is store1 with exactly one record added at the end
AppendsOne(store1, store2) ==
    /\ Len(store2) = Len(store1) + 1
    /\ SubSeq(store2, 1, Len(store1)) = store1

FirstMessage(body) == body.entry[1].changes[1].value.messages[1]

\* messages[0] carries an id, a sender, a type and an epoch timestamp, and a
\* text message carries its text
WellFormedMessage(msg) ==
    /\ Truthy(Get(msg, "id"))
    /\ Truthy(Get(msg, "from"))
    /\ Truthy(Get(msg, "type"))
    /\ Get(msg, "timestamp") \in {"1700000000", "1700000060"}
    /\ Get(msg, "type") = "text" => Has(msg, "text") /\ Has(msg.text, "body")

\* C1: a delivery with a truthy `object` and a well-formed messages[0] appends
\* exactly one record (type "received"; id, from and text copied) and emits
\* exactly one new_message carrying that record if the type is "text", and
\* otherwise appends and emits nothing; the response is 200 either way.
C1_TextIsStoredAndBroadcast ==
    [][\A body \in CompleteDeliveries :
          (/\ last' = "POST /webhook"
           /\ WellFormedMessage(FirstMessage(body))
           /\ PostWebhook(body)) =>
             LET msg == FirstMessage(body) IN
             /\ res'.status = 200
             /\ IF msg.type = "text"
                THEN /\ AppendsOne(MESSAGES, MESSAGES')
                     /\ LastOf(MESSAGES').type = "received"
                     /\ LastOf(MESSAGES').id = msg.id
                     /\ LastOf(MESSAGES').from = msg.from
                     /\ LastOf(MESSAGES').text = msg.text.body
                     /\ emitted' = <<[event |-> "new_message", payload |-> LastOf(MESSAGES')]>>
                ELSE /\ MESSAGES' = MESSAGES
                     /\ emitted' = <<>>]_vars

C1_Witness ==
    /\ last = "POST /webhook"
    /\ res.status = 200
    /\ Len(MESSAGES) = 2
    /\ LastOf(MESSAGES).type = "received"
    /\ LastOf(MESSAGES).text = "hi"
    /\ emitted = <<[event |-> "new_message", payload |-> LastOf(MESSAGES)]>>

\* C2: a send request with `to` and (`text` or `templateName`) appends one
\* record with type "sent" and from "me" and broadcasts it in the step that
\* ends at the suspension on the external call or at the mocked response; the
\* settlement of the external call leaves the store as it is, and only a
\* clear takes a record out of the store.
C2_EchoBeforeSuspension ==
    [][/\ \A req \in SendRequests :
            (/\ last' \in {"POST /api/send-message", "POST /api/send-message: await"}
             /\ Truthy(Get(req, "to"))
             /\ Truthy(Get(req, "text")) \/ Truthy(Get(req, "templateName"))
             /\ PostSendMessage(req))
            => /\ AppendsOne(MESSAGES, MESSAGES')
               /\ LastOf(MESSAGES').type = "sent"
               /\ LastOf(MESSAGES').from = "me"
               /\ emitted' = <<[event |-> "new_message", payload |-> LastOf(MESSAGES')]>>
       /\ pending' < pending => MESSAGES' = MESSAGES
       /\ last' /= "DELETE /api/messages" =>
             /\ Len(MESSAGES') >= Len(MESSAGES)
             /\ SubSeq(MESSAGES', 1, Len(MESSAGES)) = MESSAGES]_vars

C2_Witness ==
    /\ last = "POST /api/send-message: rejected"
    /\ res.body.success = FALSE
    /\ MESSAGES /= <<>>
    /\ LastOf(MESSAGES).type = "sent"

\* C4: the store changes only by one record added at its end or by a clear
\* that empties it, and GET /api/messages answers with the store as it is: the
\* records appended since the last clear, in the order of their appends.
C4_InsertionOrder ==
    [][/\ \/ MESSAGES' = MESSAGES
          \/ AppendsOne(MESSAGES, MESSAGES')
          \/ last' = "DELETE /api/messages" /\ MESSAGES' = <<>>
       /\ last' = "GET /api/messages" =>
             /\ res'.status = 200
             /\ res'.body = [messages |-> MESSAGES]
             /\ MESSAGES' = MESSAGES]_vars

C4_Witness ==
    /\ last = "GET /api/messages"
    /\ Len(res.body.messages) = 2
    /\ res.body.messages[1].type = "sent"
    /\ res.body.messages[2].type = "received"
    /\ pending > 0

C6_ClearEmpties ==
    [][last' = "DELETE /api/messages" =>
          /\ MESSAGES' = <<>>
          /\ emitted' = <<[event |-> "messages_cleared"]>>
          /\ res'.status = 200]_vars

C6_Witness ==
    /\ last = "DELETE /api/messages"
    /\ MESSAGES = <<>>
    /\ emitted = <<[event |-> "messages_cleared"]>>
    /\ pending > 0

\* C9: GET /webhook answers 200 with the challenge exactly when hub.mode is
\* "subscribe" and hub.verify_token is the configured token ("bellizy_token"
\* when none is configured), and 403 otherwise; the store is unchanged and
\* nothing is broadcast.
C9_VerificationGate ==
    [][\A query \in Queries :
          (last' = "GET /webhook" /\ GetWebhook(query)) =>
             /\ IF /\ Get(query, "hub.mode") = "subscribe"
                   /\ Get(query, "hub.verify_token") =
                         (IF env.WEBHOOK_VERIFY_TOKEN = UNDEF THEN "bellizy_token"
                          ELSE env.WEBHOOK_VERIFY_TOKEN)
                THEN /\ res'.status = 200
                     /\ Has(query, "hub.challenge") =>
                           res'.body = [text |-> query["hub.challenge"]]
                ELSE res'.status = 403
             /\ MESSAGES' = MESSAGES
             /\ emitted' = <<>>]_vars

C9_Witness ==
    /\ last = "GET /webhook"
    /\ res.status = 200
    /\ res.body = [text |-> "1158201444"]
    /\ env.WEBHOOK_VERIFY_TOKEN = UNDEF
    /\ MESSAGES /= <<>>

\* C3: a delivery with a truthy `object` in which a level of the nesting is
\* missing or empty is answered 200, never 500, and changes and emits nothing.
C3_BrokenNestingNeverRaises ==
    [][\A body \in BrokenDeliveries :
          (last' = "POST /webhook" /\ PostWebhook(body)) =>
             /\ res'.status = 200
             /\ MESSAGES' = MESSAGES
             /\ emitted' = <<>>]_vars

\* C7: no two records of the store have the same id.
C7_UniqueIds ==
    \A i, j \in 1..Len(MESSAGES) : i /= j => MESSAGES[i].id /= MESSAGES[j].id

\* C8: every record of the store has a non-empty text.
C8_NonEmptyText ==
    \A i \in 1..Len(MESSAGES) : MESSAGES[i].text /= "" /\ MESSAGES[i].text /= UNDEF

\* C10: the senderName of a record appended by a delivery is the contact's
\* profile name when that name is present and messages[0].from otherwise.
C10_SenderNameFallsBack ==
    [][\A body \in CompleteDeliveries :
          (last' = "POST /webhook" /\ MESSAGES' /= MESSAGES /\ PostWebhook(body)) =>
             LET value == body.entry[1].changes[1].value
                 named == /\ Has(value, "contacts")
                          /\ Len(value.contacts) > 0
                          /\ Has(value.contacts[1], "profile")
                          /\ Has(value.contacts[1].profile, "name")
             IN LastOf(MESSAGES').senderName =
                   IF named THEN value.contacts[1].profile.name
                   ELSE FirstMessage(body).from]_vars

====
